---- MODULE Spec2Model ----
(***************************************************************************)
(* Model of the bsource database backup service: the dumper and storage    *)
(* factories (db_dumper.py, storage_provider.py), the orchestration        *)
(* routine gerar_backup (main.py) and the notifier (email_helper.py).      *)
(*                                                                         *)
(* A text (Python str) is a sequence of atoms; an atom is a one-character  *)
(* string where the code looks at characters (lower, strip, rstrip) and a  *)
(* longer literal fragment elsewhere.  An f-string is the concatenation of *)
(* its fragments.                                                          *)
(***************************************************************************)
EXTENDS Integers, Sequences, FiniteSets, TLC

VARIABLES
    env,              \* the process environment (os.environ), a record of texts
    dumper,           \* main.py module global: the DatabaseDumper or NoneObj
    storage,          \* main.py module global: the StorageProvider or NoneObj
    DB_DATABASE,      \* main.py module global
    DB_TYPE,          \* main.py module global
    STORAGE_TYPE,     \* main.py module global
    pc,               \* position of the process: startup, idle, or inside gerar_backup
    clock,            \* index of the current instant (datetime.now)
    fs,               \* the set of paths that exist under /tmp
    run,              \* number of invocations of gerar_backup started so far
    local_time,       \* gerar_backup local: instant read at line 95
    backup_filename,  \* gerar_backup local
    backup_filepath,  \* gerar_backup local
    exc,              \* the exception in flight inside gerar_backup, or NoExc
    logs,             \* log entries emitted since the current invocation began
    emails,           \* calls of enviar_email since the current invocation began
    dumps,            \* calls of dumper.dump since the current invocation began
    uploads,          \* calls of storage.upload_file since the current invocation began
    bucket,           \* objects put into the bucket: set of [key, metadata]
    created,          \* number of successful _create_client calls of the storage instance
    remote_path,      \* gerar_backup local: value returned by upload_file, or None
    result,           \* how the last invocation of gerar_backup ended
    tests             \* what each test_connection call on the storage instance returned

vars == <<env, dumper, storage, DB_DATABASE, DB_TYPE, STORAGE_TYPE, pc, clock,
          fs, run, local_time, backup_filename, backup_filepath, exc, logs,
          emails, dumps, uploads, bucket, created, remote_path, result, tests>>

-----------------------------------------------------------------------------
(* Bounds *)

\* invocations of gerar_backup per behaviour (the immediate one and the cron ticks)
MaxRuns == 2
\* last instant the clock can reach
MaxClock == 5
\* largest number of instants one blocking call (dump, upload, idle wait) takes
MaxAdvance == 2
\* test_connection calls per behaviour
MaxTests == 2

-----------------------------------------------------------------------------
(* Texts *)

\* Python None where a str is expected (os.getenv of an unset variable)
None == <<"<None>">>

\* Python None where an object is expected
NoneObj == [cls |-> "NoneType"]

\* bool(v) of a str-or-None value
Truthy(v) == v # None /\ v # <<>>

Upper == <<"A","B","C","D","E","F","G","H","I","J","K","L","M",
           "N","O","P","Q","R","S","T","U","V","W","X","Y","Z">>
Lower == <<"a","b","c","d","e","f","g","h","i","j","k","l","m",
           "n","o","p","q","r","s","t","u","v","w","x","y","z">>

Whitespace == {" ", "\t", "\n"}

\* str.lower() on one character
LowerChar(c) ==
    IF \E i \in 1..26 : Upper[i] = c
    THEN Lower[CHOOSE i \in 1..26 : Upper[i] = c]
    ELSE c

\* str.lower()
lower(s) == [i \in 1..Len(s) |-> LowerChar(s[i])]

RECURSIVE lstrip(_)
lstrip(s) == IF s # <<>> /\ Head(s) \in Whitespace THEN lstrip(Tail(s)) ELSE s

RECURSIVE rstripWs(_)
rstripWs(s) ==
    IF s # <<>> /\ s[Len(s)] \in Whitespace THEN rstripWs(SubSeq(s, 1, Len(s) - 1)) ELSE s

\* str.strip()
strip(s) == rstripWs(lstrip(s))

\* str.rstrip("/")
RECURSIVE rstrip_slash(_)
rstrip_slash(s) ==
    IF s # <<>> /\ s[Len(s)] = "/" THEN rstrip_slash(SubSeq(s, 1, Len(s) - 1)) ELSE s

\* sub in s, as Python's `in` on str: a contiguous run of atoms
Contains(s, sub) ==
    \E i \in 1..(Len(s) - Len(sub) + 1) : SubSeq(s, i, i + Len(sub) - 1) = sub

\* os.getenv(name, default): the unset value of a variable is None
getenv(e, name, default) == IF e[name] = None THEN default ELSE e[name]

-----------------------------------------------------------------------------
(* db_dumper.py *)

postgres == <<"p","o","s","t","g","r","e","s">>
mysql    == <<"m","y","s","q","l">>
mariadb  == <<"m","a","r","i","a","d","b">>
mssql    == <<"m","s","s","q","l">>

\* _DUMPER_MAP: engine kind -> dumper class
DUMPER_MAP ==
    (postgres :> "PostgresDumper") @@ (mysql :> "MySQLDumper") @@
    (mariadb :> "MySQLDumper") @@ (mssql :> "MSSQLDumper")

\* the outcome of a constructor or factory: an object, or a raised ValueError
Ok(obj) == [raised |-> FALSE, obj |-> obj]
ValueError == [raised |-> TRUE, obj |-> NoneObj]

\* DatabaseDumper.__init__ (reached through each subclass's __init__)
DatabaseDumper_init(cls, host, port, user, password, database, db_type) ==
    IF ~(Truthy(host) /\ Truthy(port) /\ Truthy(user) /\ Truthy(password)
         /\ Truthy(database))
    THEN ValueError
    ELSE Ok([cls |-> cls, host |-> host, port |-> port, user |-> user,
             password |-> password, database |-> database, db_type |-> db_type])

\* create_dumper_from_env
create_dumper_from_env(e) ==
    LET db_type == strip(lower(getenv(e, "DB_TYPE", <<>>)))
    IN  IF db_type \notin DOMAIN DUMPER_MAP
        THEN ValueError
        ELSE DatabaseDumper_init(DUMPER_MAP[db_type], e.DB_HOST, e.DB_PORT, e.DB_USER,
                                 e.DB_PASSWORD, e.DB_DATABASE,
                                 IF db_type \in {mysql, mariadb} THEN db_type
                                 ELSE IF DUMPER_MAP[db_type] = "PostgresDumper"
                                      THEN postgres ELSE mssql)

\* get_file_extension of the three dumper classes
get_file_extension(d) == IF d.cls = "MSSQLDumper" THEN <<".bak">> ELSE <<".sql">>

\* DatabaseDumper.get_metadata
get_metadata(d) ==
    [uploaded_by |-> <<"bsource-db-backup">>, database |-> d.database,
     backup_type |-> d.db_type]

-----------------------------------------------------------------------------
(* storage_provider.py: construction *)

r2 == <<"r","2">>
s3 == <<"s","3">>

SUPPORTED_STORAGE_TYPES == {r2, s3}

default_folder == <<"b","a","c","k","u","p","s","/">>

\* StorageProvider.__init__
StorageProvider_init(cls, access_key_id, secret_access_key, bucket_name, destination_folder, endpoint_url, region) ==
    IF ~(Truthy(access_key_id) /\ Truthy(secret_access_key) /\ Truthy(bucket_name))
    THEN ValueError
    ELSE Ok([cls |-> cls, access_key_id |-> access_key_id,
             secret_access_key |-> secret_access_key, bucket_name |-> bucket_name,
             destination_folder |-> IF Truthy(destination_folder)
                                    THEN destination_folder ELSE default_folder,
             endpoint_url |-> endpoint_url, region |-> region,
             client |-> FALSE])

\* faulty variant of R2Storage.__init__: the endpoint URL is not required
R2Storage_init_NoEndpointCheck(endpoint_url, access_key_id, secret_access_key, bucket_name, destination_folder) ==
    StorageProvider_init("R2Storage", access_key_id, secret_access_key,
                         bucket_name, destination_folder, endpoint_url, None)

\* R2Storage.__init__
R2Storage_init(endpoint_url, access_key_id, secret_access_key, bucket_name, destination_folder) ==
    IF ~Truthy(endpoint_url)
    THEN ValueError
    ELSE StorageProvider_init("R2Storage", access_key_id, secret_access_key,
                              bucket_name, destination_folder, endpoint_url, None)

\* S3Storage.__init__
S3Storage_init(access_key_id, secret_access_key, bucket_name, region, endpoint_url, destination_folder) ==
    IF ~Truthy(region)
    THEN ValueError
    ELSE StorageProvider_init("S3Storage", access_key_id, secret_access_key,
                              bucket_name, destination_folder, endpoint_url, region)

\* create_storage_from_env
create_storage_from_env(e) ==
    LET storage_type == strip(lower(getenv(e, "STORAGE_TYPE", <<>>)))
        destination_folder == getenv(e, "STORAGE_DESTINATION_FOLDER", default_folder)
    IN  IF storage_type \notin SUPPORTED_STORAGE_TYPES
        THEN ValueError
        ELSE IF storage_type = r2
             THEN R2Storage_init(e.STORAGE_ENDPOINT_URL, e.STORAGE_ACCESS_KEY_ID,
                                 e.STORAGE_SECRET_ACCESS_KEY, e.STORAGE_BUCKET_NAME,
                                 destination_folder)
             ELSE S3Storage_init(e.STORAGE_ACCESS_KEY_ID, e.STORAGE_SECRET_ACCESS_KEY,
                                 e.STORAGE_BUCKET_NAME, e.STORAGE_REGION,
                                 e.STORAGE_ENDPOINT_URL, destination_folder)

-----------------------------------------------------------------------------
(* Local time: datetime.now(TIMEZONE) and its formats *)

TIMEZONE_NAME == <<"America/Sao_Paulo">>

\* the times of day the clock shows, two per day
TimesOfDay == << [h |-> 9, mi |-> 5, s |-> 7], [h |-> 23, mi |-> 59, s |-> 59] >>

\* the calendar from 2024-12-31 on: day 0 is the last day of 2024, day k >= 1
\* is the k-th of January 2025
DateOfDay(k) ==
    IF k = 0 THEN [y |-> 2024, mo |-> 12, d |-> 31] ELSE [y |-> 2025, mo |-> 1, d |-> k]

\* the datetime the clock shows at instant i
Instant(i) ==
    LET date == DateOfDay(i \div 2)
        tod  == TimesOfDay[(i % 2) + 1]
    IN  [y |-> date.y, mo |-> date.mo, d |-> date.d,
         h |-> tod.h, mi |-> tod.mi, s |-> tod.s]

Digit(n) == <<"0","1","2","3","4","5","6","7","8","9">>[n + 1]

\* %m, %d, %H, %M, %S: two digits, zero padded
Pad2(n) == << Digit((n \div 10) % 10), Digit(n % 10) >>

\* %Y: four digits
Pad4(n) == << Digit((n \div 1000) % 10), Digit((n \div 100) % 10) >> \o Pad2(n % 100)

\* strftime("%Y%m%d")
strftime_Ymd(t) == Pad4(t.y) \o Pad2(t.mo) \o Pad2(t.d)

\* strftime("%Y%m%d_%H%M%S")
strftime_Ymd_HMS(t) == strftime_Ymd(t) \o <<"_">> \o Pad2(t.h) \o Pad2(t.mi) \o Pad2(t.s)

\* strftime("%d/%m/%Y às %H:%M:%S")
strftime_br(t) ==
    Pad2(t.d) \o <<"/">> \o Pad2(t.mo) \o <<"/">> \o Pad4(t.y) \o <<" as ">>
    \o Pad2(t.h) \o <<":">> \o Pad2(t.mi) \o <<":">> \o Pad2(t.s)

\* datetime.isoformat() of an aware datetime in the configured zone
isoformat(t) ==
    Pad4(t.y) \o <<"-">> \o Pad2(t.mo) \o <<"-">> \o Pad2(t.d) \o <<"T">>
    \o Pad2(t.h) \o <<":">> \o Pad2(t.mi) \o <<":">> \o Pad2(t.s) \o <<"-03:00">>

\* get_local_datetime
get_local_datetime(c) == Instant(c)

-----------------------------------------------------------------------------
(* Exceptions and log entries *)

NoExc == [type |-> "none", msg |-> <<>>]
Exc(type, msg) == [type |-> type, msg |-> msg]

Log(logger, level, msg) == [logger |-> logger, level |-> level, msg |-> msg]

-----------------------------------------------------------------------------
(* storage_provider.py: path policy and upload *)

\* faulty variant of _build_destination_path: no separator after the date
build_destination_path_NoSlash(destination_folder, now, filename) ==
    LET base_folder == IF Truthy(destination_folder)
                       THEN rstrip_slash(destination_folder) \o <<"/">> ELSE <<>>
    IN  base_folder \o strftime_Ymd(Instant(now)) \o filename

\* StorageProvider._build_destination_path; now is the instant datetime.now returns
build_destination_path(destination_folder, now, filename) ==
    LET base_folder == IF Truthy(destination_folder)
                       THEN rstrip_slash(destination_folder) \o <<"/">> ELSE <<>>
        date_folder == strftime_Ymd(Instant(now))
    IN  base_folder \o date_folder \o <<"/">> \o filename

\* what the network does with the put of one upload_file call
NetOutcomes == {"ok", "create_fails", "ClientError", "NoCredentialsError", "ConnectionError"}

\* str(e) of the exceptions the boto3 client raises
NetExc(net) ==
    CASE net = "create_fails" -> Exc("ValueError", <<"Invalid endpoint">>)
      [] net = "ClientError" ->
           Exc("ClientError", <<"An error occurred (">> \o <<"AccessDenied">>
               \o <<") when calling the PutObject operation: Access Denied">>)
      [] net = "NoCredentialsError" ->
           Exc("NoCredentialsError", <<"Unable to locate credentials">>)
      [] OTHER -> Exc("EndpointConnectionError", <<"Could not connect to the endpoint URL">>)

\* the log entry of each except clause of upload_file
UploadErrorLog(e) ==
    CASE e.type = "ClientError" ->
           Log("backup.storage", "ERROR", <<"Erro do cliente storage: ">> \o <<"AccessDenied">>)
      [] e.type = "NoCredentialsError" ->
           Log("backup.storage", "ERROR", <<"Credenciais de storage invalidas ou ausentes">>)
      [] OTHER ->
           Log("backup.storage", "ERROR", <<"Erro inesperado no upload: ">> \o e.msg)

\* faulty variant of the client property: a client is created at every use
client_property_NoMemo(st, net) ==
    IF net = "create_fails"
    THEN [client |-> st.client, created |-> 0, exc |-> NetExc(net)]
    ELSE [client |-> TRUE, created |-> 1, exc |-> NoExc]

\* the client property: the memoized client is created on first use and is kept
\* only if _create_client returns; net = "create_fails" is a _create_client that raises
client_property(st, net) ==
    IF st.client
    THEN [client |-> TRUE, created |-> 0, exc |-> NoExc]
    ELSE IF net = "create_fails"
         THEN [client |-> FALSE, created |-> 0, exc |-> NetExc(net)]
         ELSE [client |-> TRUE, created |-> 1, exc |-> NoExc]

\* StorageProvider.upload_file from line 76 on: the local file exists.
\* Yields the exception raised (or NoExc), the returned key, the backend's memoized
\* client, the number of clients created, the objects put and the entries logged.
upload_existing(st, local_filepath, filename, metadata, now, net) ==
    LET destination_path == build_destination_path(st.destination_folder, now, filename)
        start == Log("backup.storage", "INFO", <<"Iniciando upload: ">> \o destination_path)
        c == client_property(st, net)
        \* the exception of the try block: the client's creation or the put
        e == IF c.exc # NoExc THEN c.exc
             ELSE IF net \in {"ok", "create_fails"} THEN NoExc ELSE NetExc(net)
    IN  IF e = NoExc
        THEN [exc |-> NoExc, ret |-> destination_path, client |-> c.client,
              created |-> c.created,
              put |-> {[key |-> destination_path, metadata |-> metadata]},
              logs |-> << start,
                          Log("backup.storage", "INFO", <<"Upload concluido com sucesso">>) >>]
        ELSE [exc |-> e, ret |-> None, client |-> c.client, created |-> c.created,
              put |-> {}, logs |-> << start, UploadErrorLog(e) >>]

FileNotFoundError(local_filepath) ==
    Exc("FileNotFoundError", <<"Arquivo nao encontrado: ">> \o local_filepath)

\* faulty variant of upload_file: the client property is read before the
\* existence test
upload_file_ClientFirst(st, local_filepath, filename, metadata, files, now, net) ==
    IF local_filepath \notin files
    THEN [exc |-> FileNotFoundError(local_filepath), ret |-> None,
          client |-> client_property(st, net).client,
          created |-> client_property(st, net).created, put |-> {}, logs |-> <<>>]
    ELSE upload_existing(st, local_filepath, filename, metadata, now, net)

\* StorageProvider.upload_file.
\* st: the backend; files: the paths that exist; now: the instant datetime.now
\* returns; net: the network's answer.
upload_file(st, local_filepath, filename, metadata, files, now, net) ==
    IF local_filepath \notin files
    THEN [exc |-> FileNotFoundError(local_filepath), ret |-> None,
          client |-> st.client, created |-> 0, put |-> {}, logs |-> <<>>]
    ELSE upload_existing(st, local_filepath, filename, metadata, now, net)

\* StorageProvider.test_connection: a listing of at most one object through the
\* client property; every failure is logged and answered with False
test_connection(st, net) ==
    LET c == client_property(st, net)
        e == IF c.exc # NoExc THEN c.exc
             ELSE IF net \in {"ok", "create_fails"} THEN NoExc ELSE NetExc(net)
    IN  [ret |-> e = NoExc, client |-> c.client, created |-> c.created,
         logs |-> << IF e = NoExc
                     THEN Log("backup.storage", "INFO",
                              <<"Conexao com storage testada com sucesso">>)
                     ELSE IF e.type = "ClientError"
                     THEN Log("backup.storage", "ERROR",
                              <<"Falha no teste de conexao: ">> \o <<"AccessDenied">>)
                     ELSE Log("backup.storage", "ERROR",
                              <<"Erro inesperado no teste de conexao: ">> \o e.msg) >>]

-----------------------------------------------------------------------------
(* db_dumper.py: dump *)

\* the command line each dumper class hands to the shell
DumpCommand(d, output_path) ==
    CASE d.cls = "PostgresDumper" ->
           <<"pg_dump -h ">> \o d.host \o <<" -p ">> \o d.port \o <<" -U ">> \o d.user
           \o <<" -F c -b -v -f ">> \o output_path \o <<" ">> \o d.database
      [] d.cls = "MySQLDumper" ->
           <<"mysqldump --host=">> \o d.host \o <<" --port=">> \o d.port
           \o <<" --user=">> \o d.user \o <<" --password=">> \o d.password
           \o <<" --single-transaction --routines --triggers --databases ">>
           \o d.database \o <<" --result-file=">> \o output_path
      [] OTHER ->
           <<"sqlcmd -S ">> \o d.host \o <<",">> \o d.port \o <<" -U ">> \o d.user
           \o <<" -P ">> \o d.password \o <<" -Q \"">>
           \o <<"BACKUP DATABASE [">> \o d.database \o <<"] TO DISK = N'">>
           \o output_path \o <<"' WITH FORMAT, INIT, COMPRESSION, NAME = N'">>
           \o d.database \o <<"-backup'">> \o <<"\" -C">>

\* the text each dumper class logs before it runs the command
DumpLogText(d, output_path) ==
    CASE d.cls = "PostgresDumper" -> <<"Executando: ">> \o DumpCommand(d, output_path)
      [] d.cls = "MySQLDumper" ->
           <<"Executando: mysqldump --host=">> \o d.host \o <<" --port=">> \o d.port
           \o <<" --user=">> \o d.user \o <<" --password=****** ">>
           \o <<"--single-transaction --routines --triggers --databases ">>
           \o d.database \o <<" --result-file=">> \o output_path
      [] OTHER ->
           <<"Executando: sqlcmd -S ">> \o d.host \o <<",">> \o d.port
           \o <<" -U ">> \o d.user \o <<" -P ****** -Q \"BACKUP DATABASE ...\" -C">>

\* what the dump subprocess does: exit 0, a non-zero exit, or the shell cannot be run
ProcOutcomes == {"ok", "nonzero", "oserror"}

\* str(e) of the exception subprocess.run(command, shell=True, check=True) raises
ProcExc(proc, command) ==
    CASE proc = "nonzero" ->
           Exc("CalledProcessError",
               <<"Command '">> \o command \o <<"' returned non-zero exit status 1.">>)
      [] proc = "oserror" -> Exc("OSError", <<"[Errno 2] No such file or directory">>)
      [] OTHER -> NoExc

\* dump of the three dumper classes: the entry logged and the exception raised
dump(d, output_path, proc) ==
    [logs |-> << Log("backup.db", "INFO", DumpLogText(d, output_path)) >>,
     exc  |-> ProcExc(proc, DumpCommand(d, output_path))]

-----------------------------------------------------------------------------
(* email_helper.py *)

\* what the SMTP server does with one message
SmtpOutcomes == {"sent", "refused"}

\* faulty variant of enviar_email: the SMTP failure is logged and raised again
enviar_email_Reraises(assunto, corpo, smtp) ==
    [call |-> [assunto |-> assunto, corpo |-> corpo, delivered |-> smtp = "sent"],
     logs |-> IF smtp = "sent"
              THEN << Log("backup", "INFO", <<"E-mail enviado com sucesso.">>) >>
              ELSE << Log("backup", "ERROR",
                          <<"Falha ao enviar e-mail: ">> \o <<"Connection refused">>) >>,
     exc  |-> IF smtp = "sent" THEN NoExc
              ELSE Exc("SMTPException", <<"Connection refused">>)]

\* enviar_email: the call made, the entry logged, and the exception that leaves it
enviar_email(assunto, corpo, smtp) ==
    [call |-> [assunto |-> assunto, corpo |-> corpo, delivered |-> smtp = "sent"],
     logs |-> IF smtp = "sent"
              THEN << Log("backup", "INFO", <<"E-mail enviado com sucesso.">>) >>
              ELSE << Log("backup", "ERROR",
                          <<"Falha ao enviar e-mail: ">> \o <<"Connection refused">>) >>,
     exc  |-> NoExc]

-----------------------------------------------------------------------------
(* Configurations *)

\* a variable that is unset, set to the empty string, or set to v
Opt(v) == {None, <<>>, v}

\* the values DB_TYPE takes: the four supported kinds, two of them in another case
\* or with blanks around them, an unsupported kind, the empty string, unset
DbTypeInputs ==
    {postgres, <<" ","M","y","S","Q","L"," ">>, mariadb, <<"M","S","S","Q","L">>,
     mssql, <<"o","r","a","c","l","e">>, <<>>, None}

StorageTypeInputs == {r2, <<" ","S","3">>, s3, <<"g","c","s">>, <<>>, None}

FolderInputs == {None, <<>>, default_folder, <<"a","/","/">>}

DbEnvs ==
    [DB_TYPE : DbTypeInputs, DB_HOST : Opt(<<"db.local">>), DB_PORT : Opt(<<"5432">>),
     DB_USER : Opt(<<"admin">>), DB_PASSWORD : Opt(<<"s3cr3t">>),
     DB_DATABASE : Opt(<<"shop">>)]

StorageEnvs ==
    [STORAGE_TYPE : StorageTypeInputs, STORAGE_ACCESS_KEY_ID : Opt(<<"AKIA">>),
     STORAGE_SECRET_ACCESS_KEY : Opt(<<"k3y">>), STORAGE_BUCKET_NAME : Opt(<<"bkt">>),
     STORAGE_DESTINATION_FOLDER : FolderInputs,
     STORAGE_ENDPOINT_URL : Opt(<<"https://r2.example">>),
     STORAGE_REGION : Opt(<<"us-east-1">>)]

\* a complete configuration of each part
GoodDbEnv(kind) ==
    [DB_TYPE |-> kind, DB_HOST |-> <<"db.local">>, DB_PORT |-> <<"5432">>,
     DB_USER |-> <<"admin">>, DB_PASSWORD |-> <<"s3cr3t">>, DB_DATABASE |-> <<"shop">>]

GoodStorageEnv(kind) ==
    [STORAGE_TYPE |-> kind, STORAGE_ACCESS_KEY_ID |-> <<"AKIA">>,
     STORAGE_SECRET_ACCESS_KEY |-> <<"k3y">>, STORAGE_BUCKET_NAME |-> <<"bkt">>,
     STORAGE_DESTINATION_FOLDER |-> None,
     STORAGE_ENDPOINT_URL |-> IF kind = r2 THEN <<"https://r2.example">> ELSE None,
     STORAGE_REGION |-> IF kind = s3 THEN <<"us-east-1">> ELSE None]

\* the union of two records with disjoint fields
Join(a, b) == [n \in DOMAIN a \cup DOMAIN b |-> IF n \in DOMAIN a THEN a[n] ELSE b[n]]

\* the environments of the construction check: every database configuration with
\* a complete storage configuration, and every storage configuration with a
\* complete database configuration
EnvsConfig ==
    {Join(d, GoodStorageEnv(r2)) : d \in DbEnvs}
    \cup {Join(GoodDbEnv(postgres), st) : st \in StorageEnvs}

\* the environments of the runs: each engine and each provider completely
\* configured, a database configuration without password, and an R2
\* configuration without endpoint URL
EnvsRun ==
    {Join(d, st) :
        d \in {GoodDbEnv(k) : k \in {postgres, mysql, mariadb, mssql}}
              \cup {[GoodDbEnv(postgres) EXCEPT !.DB_PASSWORD = None]},
        st \in {GoodStorageEnv(r2), GoodStorageEnv(s3),
                [GoodStorageEnv(r2) EXCEPT !.STORAGE_ENDPOINT_URL = None]}}

-----------------------------------------------------------------------------
(* main.py: module level *)

NoResult == [how |-> "none", exc |-> NoExc]

InitWith(envs) ==
    /\ env \in envs
    /\ dumper = NoneObj
    /\ storage = NoneObj
    /\ DB_DATABASE = None
    /\ DB_TYPE = None
    /\ STORAGE_TYPE = None
    /\ pc = "startup_dumper"
    /\ clock \in 0..MaxClock
    /\ fs = {}
    /\ run = 0
    /\ local_time = 0
    /\ backup_filename = None
    /\ backup_filepath = None
    /\ exc = NoExc
    /\ logs = <<>>
    /\ emails = <<>>
    /\ dumps = <<>>
    /\ uploads = <<>>
    /\ bucket = {}
    /\ created = 0
    /\ remote_path = None
    /\ result = NoResult
    /\ tests = <<>>

Init == InitWith(EnvsRun)

\* main.py lines 57-66: dumper = create_dumper_from_env(), None on ValueError
ConfigureDumper ==
    /\ pc = "startup_dumper"
    /\ LET r == create_dumper_from_env(env)
           kind == strip(lower(getenv(env, "DB_TYPE", <<>>)))
       IN  /\ dumper' = r.obj
           /\ DB_DATABASE' = IF r.raised THEN None ELSE env.DB_DATABASE
           /\ DB_TYPE' = IF r.raised THEN None ELSE kind
           /\ logs' = Append(logs,
                  IF r.raised
                  THEN Log("backup", "ERROR", <<"Erro na configuracao do banco de dados">>)
                  ELSE Log("backup", "INFO", <<"Dumper configurado: ">> \o kind))
    /\ pc' = "startup_storage"
    /\ UNCHANGED <<env, tests, storage, STORAGE_TYPE, clock, fs, run, local_time,
                   backup_filename, backup_filepath, exc, emails, dumps, uploads,
                   bucket, created, remote_path, result>>

\* main.py lines 69-76: storage = create_storage_from_env(), None on ValueError
ConfigureStorage ==
    /\ pc = "startup_storage"
    /\ LET r == create_storage_from_env(env)
           kind == strip(lower(getenv(env, "STORAGE_TYPE", <<>>)))
       IN  /\ storage' = r.obj
           /\ STORAGE_TYPE' = IF r.raised THEN None ELSE kind
           /\ logs' = Append(logs,
                  IF r.raised
                  THEN Log("backup", "ERROR", <<"Erro na configuracao do storage">>)
                  ELSE Log("backup", "INFO", <<"Storage configurado: ">> \o kind))
    /\ pc' = "idle"
    /\ UNCHANGED <<env, tests, dumper, DB_DATABASE, DB_TYPE, clock, fs, run, local_time,
                   backup_filename, backup_filepath, exc, emails, dumps, uploads,
                   bucket, created, remote_path, result>>

-----------------------------------------------------------------------------
(* main.py: gerar_backup *)

SUCESSO == <<"Database Backup - SUCESSO">>
ERRO    == <<"Database Backup - ERRO">>

\* faulty variant of the guards: a missing storage backend is not tested
gerar_backup_guards_DumperOnly(d, st) ==
    IF d = NoneObj THEN "no_dumper" ELSE "run"

\* lines 87-93: which guard, if any, cancels the invocation
gerar_backup_guards(d, st) ==
    IF d = NoneObj THEN "no_dumper"
    ELSE IF st = NoneObj THEN "no_storage"
    ELSE "run"

\* line 98
BackupFilename(database, t, extension) ==
    <<"backup_">> \o database \o <<"_">> \o strftime_Ymd_HMS(t) \o extension

\* line 99
BackupFilepath(filename) == <<"/tmp/">> \o filename

\* faulty variant of the try statement: the exception is swallowed and the
\* run goes on
except_clause_Swallow(e, next) == next

\* lines 101, 124, 133: the clause that takes over when the try block's statement
\* ends with exception e; next is the position after the statement
except_clause(e, next) ==
    IF e = NoExc THEN next
    ELSE IF e.type = "CalledProcessError" THEN "except_dump"
    ELSE "except_other"

\* lines 107-111
UploadMetadata(d, t) ==
    [uploaded_by |-> get_metadata(d).uploaded_by, database |-> get_metadata(d).database,
     backup_type |-> get_metadata(d).backup_type,
     upload_timestamp |-> isoformat(t), timezone |-> TIMEZONE_NAME]

\* lines 119-122
SuccessBody(filename, database, db_type, t) ==
    <<"Backup '">> \o filename \o <<"' da base de dados '">> \o database \o <<"' (">>
    \o db_type \o <<") realizado com sucesso em ">> \o strftime_br(t) \o <<" (">>
    \o TIMEZONE_NAME \o <<")!">>

\* lines 128-131
DumpErrorBody(database, db_type, t, e) ==
    <<"Falha ao gerar o backup da base de dados '">> \o database \o <<"' (">>
    \o db_type \o <<") em ">> \o strftime_br(t) \o <<" (">> \o TIMEZONE_NAME
    \o <<").\n\nErro: ">> \o e.msg

\* lines 137-140
UploadErrorBody(database, db_type, t, e) ==
    <<"Falha no upload do backup da base de dados '">> \o database \o <<"' (">>
    \o db_type \o <<") em ">> \o strftime_br(t) \o <<" (">> \o TIMEZONE_NAME
    \o <<").\n\nErro: ">> \o e.msg

\* faulty variant of the finally block: the file is left in place
finally_block_NoRemove(path, files, rm) ==
    [fs |-> files, logs |-> <<>>, exc |-> NoExc]

\* lines 142-145: what the finally block does to the files; rm is what os.remove does
finally_block(path, files, rm) ==
    IF path \notin files
    THEN [fs |-> files, logs |-> <<>>, exc |-> NoExc]
    ELSE IF rm = "ok"
         THEN [fs |-> files \ {path},
               logs |-> << Log("backup", "INFO", <<"Arquivo de backup local removido.">>) >>,
               exc |-> NoExc]
         ELSE [fs |-> files, logs |-> <<>>,
               exc |-> Exc("PermissionError", <<"[Errno 13] Permission denied: ">> \o path)]

RemoveOutcomes == {"ok", "fail"}

\* lines 84-99: the invocation begins; a missing collaborator cancels it
Start ==
    /\ pc = "idle"
    /\ run < MaxRuns
    /\ run' = run + 1
    /\ exc' = NoExc
    /\ emails' = <<>>
    /\ dumps' = <<>>
    /\ uploads' = <<>>
    /\ remote_path' = None
    /\ LET g == gerar_backup_guards(dumper, storage)
           begin == Log("backup", "INFO", <<"Iniciando backup...">>)
       IN  IF g = "run"
           THEN /\ local_time' = clock
                /\ backup_filename' = BackupFilename(DB_DATABASE, get_local_datetime(clock),
                                                     get_file_extension(dumper))
                /\ backup_filepath' = BackupFilepath(backup_filename')
                /\ logs' = << begin >>
                /\ pc' = "dump"
                /\ result' = NoResult
           ELSE /\ logs' = << begin,
                      Log("backup", "ERROR",
                          IF g = "no_dumper"
                          THEN <<"Dumper nao configurado. Backup cancelado.">>
                          ELSE <<"Storage nao configurado. Backup cancelado.">>) >>
                /\ pc' = "idle"
                /\ result' = [how |-> "skipped", exc |-> NoExc]
                /\ UNCHANGED <<local_time, backup_filename, backup_filepath>>
    /\ UNCHANGED <<env, tests, dumper, storage, DB_DATABASE, DB_TYPE, STORAGE_TYPE, clock, fs,
                   bucket, created>>

\* lines 103-104: dumper.dump(backup_filepath).  The subprocess takes some time,
\* and leaves a file or not: a dump that exits 0 has written its file, except that
\* SQL Server writes the backup on the database server's disk.
Dump ==
    /\ pc = "dump"
    /\ \E proc \in ProcOutcomes, wrote \in BOOLEAN, adv \in 0..MaxAdvance :
        /\ clock + adv <= MaxClock
        /\ proc = "ok" => (wrote \/ dumper.cls = "MSSQLDumper")
        /\ proc = "oserror" => ~wrote
        /\ LET r == dump(dumper, backup_filepath, proc)
           IN  /\ dumps' = Append(dumps, [path |-> backup_filepath, outcome |-> proc,
                                          wrote |-> wrote])
               /\ fs' = IF wrote THEN fs \cup {backup_filepath} ELSE fs
               /\ clock' = clock + adv
               /\ exc' = r.exc
               /\ logs' = logs \o r.logs \o
                          (IF r.exc = NoExc
                           THEN << Log("backup", "INFO",
                                       <<"Backup gerado: ">> \o backup_filepath) >>
                           ELSE <<>>)
               /\ pc' = except_clause(r.exc, "upload")
    /\ UNCHANGED <<env, tests, dumper, storage, DB_DATABASE, DB_TYPE, STORAGE_TYPE, run,
                   local_time, backup_filename, backup_filepath, emails, uploads,
                   bucket, created, remote_path, result>>

\* lines 107-115: storage.upload_file(backup_filepath, backup_filename, metadata)
Upload ==
    /\ pc = "upload"
    /\ \E net \in NetOutcomes, adv \in 0..MaxAdvance :
        /\ clock + adv <= MaxClock
        /\ LET metadata == UploadMetadata(dumper, Instant(local_time))
               r == upload_file(storage, backup_filepath, backup_filename, metadata,
                                fs, clock, net)
           IN  /\ storage' = [storage EXCEPT !.client = r.client]
               /\ created' = created + r.created
               /\ bucket' = bucket \cup r.put
               /\ uploads' = Append(uploads, [path |-> backup_filepath,
                                              filename |-> backup_filename,
                                              at |-> clock,
                                              outcome |-> r.exc.type])
               /\ remote_path' = r.ret
               /\ clock' = clock + adv
               /\ exc' = r.exc
               /\ logs' = logs \o r.logs \o
                          (IF r.exc = NoExc
                           THEN << Log("backup", "INFO",
                                       <<"Backup enviado para ">> \o STORAGE_TYPE
                                       \o <<": ">> \o r.ret) >>
                           ELSE <<>>)
               /\ pc' = except_clause(r.exc, "notify")
    /\ UNCHANGED <<env, tests, dumper, DB_DATABASE, DB_TYPE, STORAGE_TYPE, fs, run, local_time,
                   backup_filename, backup_filepath, emails, dumps, result>>

\* lines 117-122: the success notification, still inside the try block
NotifySuccess ==
    /\ pc = "notify"
    /\ \E smtp \in SmtpOutcomes :
        LET r == enviar_email(SUCESSO,
                              SuccessBody(backup_filename, DB_DATABASE, DB_TYPE,
                                          Instant(local_time)),
                              smtp)
        IN  /\ emails' = Append(emails, r.call)
            /\ logs' = logs \o r.logs
            /\ exc' = r.exc
            /\ pc' = except_clause(r.exc, "finally")
    /\ UNCHANGED <<env, tests, dumper, storage, DB_DATABASE, DB_TYPE, STORAGE_TYPE, clock, fs,
                   run, local_time, backup_filename, backup_filepath, dumps, uploads,
                   bucket, created, remote_path, result>>

\* lines 124-131: except subprocess.CalledProcessError
ExceptDump ==
    /\ pc = "except_dump"
    /\ \E smtp \in SmtpOutcomes :
        LET r == enviar_email(ERRO,
                              DumpErrorBody(DB_DATABASE, DB_TYPE,
                                            get_local_datetime(clock), exc),
                              smtp)
        IN  /\ emails' = Append(emails, r.call)
            /\ logs' = logs
                       \o << Log("backup", "ERROR", <<"Erro ao gerar backup: ">> \o exc.msg) >>
                       \o r.logs
            /\ pc' = IF r.exc = NoExc THEN "finally" ELSE "finally_raising"
            /\ exc' = IF r.exc = NoExc THEN exc ELSE r.exc
    /\ UNCHANGED <<env, tests, dumper, storage, DB_DATABASE, DB_TYPE, STORAGE_TYPE, clock, fs,
                   run, local_time, backup_filename, backup_filepath, dumps, uploads,
                   bucket, created, remote_path, result>>

\* lines 133-140: except (ClientError, NoCredentialsError, Exception)
ExceptOther ==
    /\ pc = "except_other"
    /\ \E smtp \in SmtpOutcomes :
        LET r == enviar_email(ERRO,
                              UploadErrorBody(DB_DATABASE, DB_TYPE,
                                              get_local_datetime(clock), exc),
                              smtp)
        IN  /\ emails' = Append(emails, r.call)
            /\ logs' = logs
                       \o << Log("backup", "ERROR",
                                 <<"Erro no upload para ">> \o STORAGE_TYPE \o <<": ">>
                                 \o exc.msg) >>
                       \o r.logs
            /\ pc' = IF r.exc = NoExc THEN "finally" ELSE "finally_raising"
            /\ exc' = IF r.exc = NoExc THEN exc ELSE r.exc
    /\ UNCHANGED <<env, tests, dumper, storage, DB_DATABASE, DB_TYPE, STORAGE_TYPE, clock, fs,
                   run, local_time, backup_filename, backup_filepath, dumps, uploads,
                   bucket, created, remote_path, result>>

\* lines 142-145 and the return to the caller.  An exception that leaves the first
\* invocation (line 160, before scheduler.start()) ends the process; one that
\* leaves a scheduled invocation is caught by the scheduler's job executor.
Finally ==
    /\ pc \in {"finally", "finally_raising"}
    /\ \E rm \in RemoveOutcomes :
        LET r == finally_block(backup_filepath, fs, rm)
            leaving == IF r.exc # NoExc THEN r.exc
                       ELSE IF pc = "finally_raising" THEN exc ELSE NoExc
        IN  /\ fs' = r.fs
            /\ logs' = logs \o r.logs
            /\ result' = [how |-> IF leaving = NoExc THEN "returned" ELSE "raised",
                          exc |-> leaving]
            /\ pc' = IF leaving # NoExc /\ run = 1 THEN "crashed" ELSE "idle"
    /\ UNCHANGED <<env, tests, dumper, storage, DB_DATABASE, DB_TYPE, STORAGE_TYPE, clock, run,
                   local_time, backup_filename, backup_filepath, exc, emails, dumps,
                   uploads, bucket, created, remote_path>>

\* the scheduler waits for the next cron tick
Wait ==
    /\ pc = "idle"
    /\ run >= 1
    /\ run < MaxRuns
    /\ \E adv \in 1..MaxAdvance :
        /\ clock + adv <= MaxClock
        /\ clock' = clock + adv
    /\ UNCHANGED <<env, tests, dumper, storage, DB_DATABASE, DB_TYPE, STORAGE_TYPE, pc, fs, run,
                   local_time, backup_filename, backup_filepath, exc, logs, emails,
                   dumps, uploads, bucket, created, remote_path, result>>

Next ==
    \/ ConfigureDumper
    \/ ConfigureStorage
    \/ Start
    \/ Dump
    \/ Upload
    \/ NotifySuccess
    \/ ExceptDump
    \/ ExceptOther
    \/ Finally
    \/ Wait

Spec == Init /\ [][Next]_vars

TypeOK == pc \in {"startup_dumper", "startup_storage", "idle", "dump", "upload", "notify",
                  "except_dump", "except_other", "finally", "finally_raising", "crashed"}

-----------------------------------------------------------------------------
(* Construction from configuration, checked on its own *)

SpecConfig == InitWith(EnvsConfig) /\ [][ConfigureDumper \/ ConfigureStorage]_vars

-----------------------------------------------------------------------------
(* The path policy, checked on its own *)

\* the destination folders of the path check: unset, empty, the default, with
\* several trailing separators, the separator alone, nested, without separator
PathFolderInputs ==
    {None, <<>>, default_folder, <<"a","/","/">>, <<"/">>, <<"a","/","b">>, <<"x">>}

PathFilenames ==
    {<<"backup_shop_20241231_090507.sql">>, <<"b",".","b","a","k">>, <<"f">>}

EnvsPath ==
    {Join(GoodDbEnv(postgres),
          [GoodStorageEnv(s3) EXCEPT !.STORAGE_DESTINATION_FOLDER = f]) :
        f \in PathFolderInputs}

\* _build_destination_path(filename) called on the configured backend
BuildPath ==
    /\ pc = "idle"
    /\ storage # NoneObj
    /\ \E filename \in PathFilenames :
        /\ backup_filename' = filename
        /\ remote_path' = build_destination_path(storage.destination_folder, clock, filename)
    /\ UNCHANGED <<env, tests, dumper, storage, DB_DATABASE, DB_TYPE, STORAGE_TYPE, pc, clock,
                   fs, run, local_time, backup_filepath, exc, logs, emails, dumps,
                   uploads, bucket, created, result>>

SpecPath == InitWith(EnvsPath) /\ [][ConfigureDumper \/ ConfigureStorage \/ BuildPath]_vars

-----------------------------------------------------------------------------
(* The storage backend used between the runs as well *)

\* the environments of the client check: each provider completely configured, with
\* an engine that leaves its file under /tmp and one that may not
EnvsClient ==
    {Join(d, st) : d \in {GoodDbEnv(postgres), GoodDbEnv(mssql)},
                   st \in {GoodStorageEnv(r2), GoodStorageEnv(s3)}}

\* storage.test_connection() called between two invocations of gerar_backup
TestConnection ==
    /\ pc = "idle"
    /\ storage # NoneObj
    /\ Len(tests) < MaxTests
    /\ \E net \in NetOutcomes :
        LET r == test_connection(storage, net)
        IN  /\ tests' = Append(tests, r.ret)
            /\ storage' = [storage EXCEPT !.client = r.client]
            /\ created' = created + r.created
            /\ logs' = logs \o r.logs
    /\ UNCHANGED <<env, dumper, DB_DATABASE, DB_TYPE, STORAGE_TYPE, pc, clock, fs, run,
                   local_time, backup_filename, backup_filepath, exc, emails, dumps,
                   uploads, bucket, remote_path, result>>

NextClient ==
    \/ Next
    \/ TestConnection

\* the client does not depend on the time: the check starts late in the calendar
InitClient == InitWith(EnvsClient) /\ clock >= MaxClock - 1

SpecClient == InitClient /\ [][NextClient]_vars

-----------------------------------------------------------------------------
(* Properties *)

\* an invocation that got past the guards has ended
RunEnded == pc \in {"idle", "crashed"} /\ result.how \in {"returned", "raised"}

DumpOk == dumps # <<>> /\ dumps[1].outcome = "ok"
UploadOk == uploads # <<>> /\ uploads[1].outcome = "none"

\* C1 as stated: after every run that gets past the guards, whatever its outcome,
\* the run's temp file does not exist when the run ends.
C1_TempFileAbsentAlways == RunEnded => backup_filepath \notin fs

\* C1, amended: after every run that gets past the guards, the run's temp file
\* does not exist when the run ends, unless the deletion itself failed
\* (os.remove raised), in which case the file is left in place.
C1_TempFileAbsentUnlessRemoveFails ==
    RunEnded =>
        IF result.exc.type = "PermissionError"
        THEN backup_filepath \in fs
        ELSE backup_filepath \notin fs

\* a run whose dump wrote the file and then failed has ended, and the file is gone
C1_Witness ==
    /\ RunEnded
    /\ dumps # <<>> /\ dumps[1].outcome = "nonzero" /\ dumps[1].wrote
    /\ backup_filepath \notin fs

\* C2: if dumper.dump raises, storage.upload_file is never invoked in that run; an
\* upload is attempted only after the dump of the same run returned successfully.
C2_NoUploadAfterFailedDump ==
    /\ uploads # <<>> => DumpOk
    /\ (dumps # <<>> /\ dumps[1].outcome # "ok") => (uploads = <<>> /\ pc # "upload")

\* a run whose dump raised has ended without any upload
C2_Witness ==
    RunEnded /\ dumps # <<>> /\ dumps[1].outcome = "nonzero" /\ uploads = <<>>

\* C3: every run that starts with both collaborators configured emits exactly one
\* notification: a success notification iff both the dump and the upload
\* succeeded, otherwise a failure notification carrying the captured error
\* detail; a failure of the notifier adds no second notification and does not
\* change the run's outcome.
C3_ExactlyOneNotification ==
    /\ Len(emails) <= 1
    /\ RunEnded =>
        /\ Len(emails) = 1
        /\ emails[1].assunto \in {SUCESSO, ERRO}
        /\ emails[1].assunto = SUCESSO <=> (DumpOk /\ UploadOk)
        /\ emails[1].assunto = ERRO =>
              exc # NoExc /\ Contains(emails[1].corpo, exc.msg)
        /\ result.exc.type # "SMTPException"

\* a successful run whose notification the SMTP server refused has ended normally
\* with that one notification
C3_Witness ==
    /\ RunEnded /\ result.how = "returned"
    /\ DumpOk /\ UploadOk
    /\ Len(emails) = 1 /\ ~emails[1].delivered

\* C4: if construction of the dumper or of the storage backend failed at startup,
\* the collaborator is left None and every invocation of gerar_backup is skipped:
\* no dump, no upload, no temp file, and the invocation returns normally.
C4_SkippedWhenUnconfigured ==
    LET dumperFailed  == create_dumper_from_env(env).raised
        storageFailed == create_storage_from_env(env).raised
    IN  /\ (pc # "startup_dumper" /\ dumperFailed) => dumper = NoneObj
        /\ (pc \notin {"startup_dumper", "startup_storage"} /\ storageFailed)
               => storage = NoneObj
        /\ (pc \notin {"startup_dumper", "startup_storage"}
            /\ (dumperFailed \/ storageFailed)) =>
               /\ pc = "idle"
               /\ dumps = <<>> /\ uploads = <<>> /\ emails = <<>>
               /\ fs = {} /\ bucket = {}
               /\ run > 0 => result = [how |-> "skipped", exc |-> NoExc]

\* with a dumper but no storage backend, every permitted invocation was skipped
C4_Witness ==
    /\ dumper # NoneObj /\ storage = NoneObj
    /\ run = MaxRuns /\ result.how = "skipped" /\ pc = "idle"

\* C5: for every engine and every run outcome, the database password never
\* appears in a log entry of the dumper or the orchestrator, nor in the body of
\* the run's notification.
C5_PasswordNeverDisclosed ==
    dumper # NoneObj =>
        /\ \A i \in 1..Len(logs) : ~Contains(logs[i].msg, dumper.password)
        /\ \A i \in 1..Len(emails) : ~Contains(emails[i].corpo, dumper.password)

\* C6: if deleting the temp file fails in the cleanup step, the error is logged
\* and not re-raised: gerar_backup still returns normally.
C6_RemoveErrorNotRaised ==
    RunEnded =>
        (backup_filepath \in fs =>
            /\ result.how = "returned"
            /\ pc = "idle")


\* the fields each variant requires
DbFieldsPresent(e) ==
    \A n \in {"DB_HOST", "DB_PORT", "DB_USER", "DB_PASSWORD", "DB_DATABASE"} :
        e[n] \notin {None, <<>>}

StorageFieldsPresent(e, kind) ==
    /\ \A n \in {"STORAGE_ACCESS_KEY_ID", "STORAGE_SECRET_ACCESS_KEY",
                 "STORAGE_BUCKET_NAME"} : e[n] \notin {None, <<>>}
    /\ kind = r2 => e.STORAGE_ENDPOINT_URL \notin {None, <<>>}
    /\ kind = s3 => e.STORAGE_REGION \notin {None, <<>>}

\* the kind as the factories read it: unset is the empty string, letters are
\* lower-cased, surrounding blanks are dropped
KindRead(v) == strip(lower(IF v = None THEN <<>> ELSE v))

\* C7 as stated: construction succeeds iff the kind is one of the supported
\* values and every field the variant requires is non-empty; otherwise it fails
\* with a configuration error.
C7_ConstructionIffSupportedKind ==
    pc = "idle" =>
        /\ dumper # NoneObj <=>
              (env.DB_TYPE \in {postgres, mysql, mariadb, mssql} /\ DbFieldsPresent(env))
        /\ storage # NoneObj <=>
              (env.STORAGE_TYPE \in {r2, s3}
               /\ StorageFieldsPresent(env, env.STORAGE_TYPE))

\* C7, amended: construction succeeds iff the kind, once lower-cased and stripped
\* of surrounding whitespace, is one of the supported values and every field the
\* variant requires is non-empty (host, port, user, password, database for every
\* engine; access key id, secret key and bucket for every provider, plus endpoint
\* URL for r2 and region for s3); otherwise it fails with a configuration error.
C7_ConstructionIffNormalizedKind ==
    pc = "idle" =>
        /\ dumper # NoneObj <=>
              (KindRead(env.DB_TYPE) \in {postgres, mysql, mariadb, mssql}
               /\ DbFieldsPresent(env))
        /\ storage # NoneObj <=>
              (KindRead(env.STORAGE_TYPE) \in {r2, s3}
               /\ StorageFieldsPresent(env, KindRead(env.STORAGE_TYPE)))

\* an R2 configuration whose only gap is the endpoint URL was refused
C7_Witness ==
    /\ pc = "idle"
    /\ env.STORAGE_TYPE = r2
    /\ env.STORAGE_ENDPOINT_URL = None
    /\ StorageFieldsPresent([env EXCEPT !.STORAGE_ENDPOINT_URL = <<"u">>], r2)
    /\ storage = NoneObj

\* the number a run of decimal digits denotes
RECURSIVE DigitsValue(_)
DigitsValue(ds) ==
    IF ds = <<>> THEN 0
    ELSE 10 * DigitsValue(SubSeq(ds, 1, Len(ds) - 1))
         + (CHOOSE n \in 0..9 : Digit(n) = ds[Len(ds)])

IsDigits(ds) == \A i \in 1..Len(ds) : \E n \in 0..9 : Digit(n) = ds[i]

\* key = folder + YYYYMMDD + "/" + filename for the date of instant t
HasShape(key, folder, t, filename) ==
    LET n == Len(folder)
        date == SubSeq(key, n + 1, n + 8)
    IN  /\ Len(key) = n + 8 + 1 + Len(filename)
        /\ SubSeq(key, 1, n) = folder
        /\ IsDigits(date)
        /\ DigitsValue(date) = t.y * 10000 + t.mo * 100 + t.d
        /\ key[n + 9] = "/"
        /\ SubSeq(key, n + 10, Len(key)) = filename

\* folder is the configured folder cfg with its trailing separators replaced by one
NormalizedFrom(folder, cfg) ==
    /\ folder # <<>> /\ folder[Len(folder)] = "/"
    /\ Len(folder) >= 2 => folder[Len(folder) - 1] # "/"
    /\ \E k \in 0..Len(cfg) :
          /\ SubSeq(cfg, 1, Len(cfg) - k) = SubSeq(folder, 1, Len(folder) - 1)
          /\ \A i \in (Len(cfg) - k + 1)..Len(cfg) : cfg[i] = "/"

\* C8 as stated: the key is folder + YYYYMMDD + "/" + filename, the folder part
\* normalized to end with exactly one "/", or empty if no folder is configured.
C8_PathShapeEmptyWhenUnconfigured ==
    remote_path # None =>
        \E n \in 0..Len(remote_path) :
            LET folder == SubSeq(remote_path, 1, n)
                cfg == env.STORAGE_DESTINATION_FOLDER
            IN  /\ HasShape(remote_path, folder, Instant(clock), backup_filename)
                /\ IF cfg \in {None, <<>>} THEN folder = <<>>
                   ELSE NormalizedFrom(folder, cfg)

\* C8, amended: the key is folder + YYYYMMDD + "/" + filename, where the folder
\* part is the configured folder normalized to end with exactly one "/", or the
\* default "backups/" if no folder is configured; the date segment is the 8-digit
\* YYYYMMDD of the local date and exactly one "/" separates it from the filename.
C8_PathShapeDefaultWhenUnconfigured ==
    remote_path # None =>
        \E n \in 0..Len(remote_path) :
            LET folder == SubSeq(remote_path, 1, n)
                cfg == env.STORAGE_DESTINATION_FOLDER
            IN  /\ HasShape(remote_path, folder, Instant(clock), backup_filename)
                /\ IF cfg \in {None, <<>>} THEN folder = <<"b","a","c","k","u","p","s","/">>
                   ELSE NormalizedFrom(folder, cfg)

\* a key was built on New Year's Day from a folder configured with two trailing
\* separators
C8_Witness ==
    /\ remote_path # None
    /\ env.STORAGE_DESTINATION_FOLDER = <<"a","/","/">>
    /\ Instant(clock).y = 2025 /\ Instant(clock).d = 1
    /\ remote_path[1] = "a" /\ remote_path[2] = "/" /\ remote_path[3] = "2"

\* C9: upload_file called with a local path that does not exist raises
\* FileNotFoundError before any network activity: no client is created, no put
\* is issued, and the backend's memoized client state is unchanged.
C9_MissingFileRaisesBeforeNetwork ==
    [][(pc = "upload" /\ backup_filepath \notin fs) =>
          /\ exc'.type = "FileNotFoundError"
          /\ uploads' = Append(uploads, [path |-> backup_filepath,
                                         filename |-> backup_filename, at |-> clock,
                                         outcome |-> "FileNotFoundError"])
          /\ storage' = storage
          /\ created' = created
          /\ bucket' = bucket
          /\ remote_path' = None]_vars

\* an upload of a missing file raised FileNotFoundError in the second run, on a
\* backend whose client the first run had created
C9_Witness ==
    /\ uploads # <<>> /\ uploads[1].outcome = "FileNotFoundError"
    /\ backup_filepath \notin fs
    /\ storage.client /\ created = 1 /\ run = 2

\* C10: within every run the steps occur in the order dump, upload, cleanup,
\* notify: no notification is sent while the run's temp file still exists.
C10_NotifyAfterCleanup ==
    [][Len(emails') > Len(emails) => backup_filepath \notin fs]_vars

\* C11: for one storage backend instance, over any sequence of upload_file and
\* test_connection calls across runs, no client exists before the first use, and
\* once a client has been created every later call uses that same client:
\* _create_client succeeds at most once per instance.
C11_ClientCreatedAtMostOnce ==
    /\ [](/\ created <= 1
          /\ storage = NoneObj => created = 0
          /\ storage # NoneObj => (storage.client <=> created = 1)
          /\ (run = 0 /\ tests = <<>>) => created = 0)
    /\ [][(storage # NoneObj /\ storage' # NoneObj) =>
             /\ storage.client => (storage'.client /\ created' = created)
             /\ storage'.client # storage.client =>
                   \/ pc = "upload" /\ backup_filepath \in fs
                   \/ tests' # tests]_vars

\* a test_connection before the first run created the client, and the first run's
\* upload succeeded with it; no second client was created
C11_Witness ==
    /\ pc = "notify" /\ run = 1
    /\ tests # <<>> /\ tests[1]
    /\ UploadOk
    /\ storage.client /\ created = 1

\* the YYYYMMDD segment of a key that ends with "/" and the filename
KeyDate(key, filename) ==
    SubSeq(key, Len(key) - Len(filename) - 8, Len(key) - Len(filename) - 1)

\* the YYYYMMDD part of the timestamp in backup_<database>_<timestamp><extension>
FilenameDate(filename, database) ==
    SubSeq(filename, Len(database) + 3, Len(database) + 10)

\* the digits of the date of an ISO timestamp YYYY-MM-DDT...
IsoDate(ts) == SubSeq(ts, 1, 4) \o SubSeq(ts, 6, 7) \o SubSeq(ts, 9, 10)

\* C12: for every successful run, the YYYYMMDD segment of the remote key returned
\* by upload_file equals the date part of the timestamp in the run's backup
\* filename and of the upload-timestamp metadata, however long the dump takes,
\* a dump that spans local midnight included.
C12_KeyDateIsRunDate ==
    (pc \in {"notify", "finally", "idle", "crashed"} /\ DumpOk /\ UploadOk) =>
        /\ KeyDate(remote_path, backup_filename)
              = FilenameDate(backup_filename, DB_DATABASE)
        /\ \A o \in bucket :
              (o.key = remote_path /\ o.metadata.upload_timestamp
                                        = isoformat(Instant(local_time))) =>
                  KeyDate(remote_path, backup_filename)
                      = IsoDate(o.metadata.upload_timestamp)

====
